---- MODULE Spec2Model ----
(***************************************************************************)
(* gvizpivot.PivotAgg (pivot2.js): construction of a pivoted data table.   *)
(*                                                                         *)
(* JavaScript values are modelled as follows.                              *)
(*   - a string is the sequence of its UTF-16 code units;                  *)
(*   - a source cell or a column title is a tagged value                   *)
(*       [t |-> "str" | "num", s |-> <string>, n |-> <integer>];           *)
(*   - a numeric cell of the OUTPUT table is held in hundredths (the       *)
(*     percent conversion rounds to two decimals), so 25 is Num(2500);     *)
(*   - an optional option is a sequence of length 0 (absent) or 1.         *)
(* Indices (rows, columns) are 0-based as in the source.                   *)
(***************************************************************************)
EXTENDS Integers, Sequences, FiniteSets, TLC

\* ------------------------------------------------------------------ values

Str(s) == [t |-> "str", s |-> s, n |-> 0]
Num(n) == [t |-> "num", s |-> <<>>, n |-> n]
NaN == [t |-> "nan", s |-> <<>>, n |-> 0]
Null == [t |-> "null", s |-> <<>>, n |-> 0]

\* Number of hundredths in one unit of an output cell.
Scale == 100

RECURSIVE Digits(_)
\* ToString of a non-negative integer.
Digits(n) == IF n < 10 THEN <<48 + n>> ELSE Digits(n \div 10) \o <<48 + (n % 10)>>

\* String(v) for a tagged value.
JSString(v) == IF v.t = "num" THEN Digits(v.n) ELSE v.s

RECURSIVE Join(_)
\* Array.prototype.toString: the elements' strings joined by ",".
Join(arr) ==
  IF arr = <<>> THEN <<>>
  ELSE IF Len(arr) = 1 THEN JSString(arr[1])
  ELSE JSString(arr[1]) \o <<44>> \o Join(Tail(arr))

RECURSIVE StrLess(_, _)
\* a < b for strings: code-unit lexicographic order.
StrLess(a, b) ==
  IF b = <<>> THEN FALSE
  ELSE IF a = <<>> THEN TRUE
  ELSE IF a[1] # b[1] THEN a[1] < b[1]
  ELSE StrLess(Tail(a), Tail(b))

\* Natural order of two values of one column type.
NaturalLess(a, b) == IF a.t = "num" THEN a.n < b.n ELSE StrLess(a.s, b.s)

\* The comparison Array.prototype.sort uses without a comparator.
DefaultSortLess(a, b) == StrLess(JSString(a), JSString(b))

RECURSIVE InsertBy(_, _, _)
InsertBy(x, sorted, natural) ==
  IF sorted = <<>> THEN <<x>>
  ELSE IF (IF natural THEN NaturalLess(x, sorted[1]) ELSE DefaultSortLess(x, sorted[1]))
       THEN <<x>> \o sorted
       ELSE <<sorted[1]>> \o InsertBy(x, Tail(sorted), natural)

RECURSIVE SortBy(_, _)
SortBy(seq, natural) ==
  IF seq = <<>> THEN <<>> ELSE InsertBy(seq[1], SortBy(Tail(seq), natural), natural)

\* distinct.sort()
ArraySort(seq) == SortBy(seq, FALSE)

RECURSIVE Reverse(_)
Reverse(seq) == IF seq = <<>> THEN <<>> ELSE Reverse(Tail(seq)) \o <<seq[1]>>

RECURSIVE SetToSeq(_)
SetToSeq(S) == IF S = {} THEN <<>> ELSE LET x == CHOOSE y \in S : TRUE IN <<x>> \o SetToSeq(S \ {x})

Range(seq) == {seq[i] : i \in 1..Len(seq)}

\* ------------------------------------------- the Table capability (gviz)

NewDataTable == [cols |-> <<>>, rows |-> <<>>, fmt |-> <<>>]

getNumberOfRows(tbl) == Len(tbl.rows)
getNumberOfColumns(tbl) == Len(tbl.cols)
getValue(tbl, r, c) == tbl.rows[r + 1][c + 1]
getColumnType(tbl, c) == tbl.cols[c + 1].type
getColumnLabel(tbl, c) == tbl.cols[c + 1].label

\* setValue(r, c, v): the table after the call.
setValue(tbl, r, c, v) == [tbl EXCEPT !.rows[r + 1][c + 1] = v]

\* addColumn(type, label): the table after the call; the call returns the
\* new column's index, which is the number of columns before it.
addColumn(tbl, type, label) ==
  [tbl EXCEPT !.cols = Append(@, [type |-> type, label |-> label]),
              !.rows = [r \in 1..Len(@) |-> Append(@[r], Null)]]

\* addRow(cells) throws unless it is given one cell per column.
addRowThrows(tbl, cells) == Len(cells) # Len(tbl.cols)
addRow(tbl, cells) == [tbl EXCEPT !.rows = Append(@, cells)]

\* getValue(r, c) throws for a column index outside the table.
getValueThrows(tbl, c) == c >= Len(tbl.cols)

\* getDistinctValues(c): the column's distinct values in natural order.
getDistinctValues(tbl, c) ==
  SortBy(SetToSeq({tbl.rows[r][c + 1] : r \in 1..Len(tbl.rows)}), TRUE)

\* formatter.format(table, c): recorded on the table, values untouched.
format(tbl, f, c) == [tbl EXCEPT !.fmt = Append(@, <<f, c>>)]

\* ------------------------------------------------- JavaScript objects

\* An object used as a map: its own properties in insertion order.
hasKey(obj, k) == \E i \in 1..Len(obj) : obj[i].key = k
getKey(obj, k) == obj[CHOOSE i \in 1..Len(obj) : obj[i].key = k].val
putKey(obj, k, v) ==
  IF hasKey(obj, k)
  THEN [i \in 1..Len(obj) |-> IF obj[i].key = k THEN [key |-> k, val |-> v] ELSE obj[i]]
  ELSE Append(obj, [key |-> k, val |-> v])

\* A property name that is a canonical array index ("0", "7", "10").
IsArrayIndex(k) ==
  /\ k # <<>>
  /\ \A i \in 1..Len(k) : k[i] >= 48 /\ k[i] <= 57
  /\ (Len(k) > 1 => k[1] # 48)

IndexLess(a, b) == Len(a) < Len(b) \/ (Len(a) = Len(b) /\ StrLess(a, b))

RECURSIVE InsertIndexKey(_, _)
InsertIndexKey(x, sorted) ==
  IF sorted = <<>> THEN <<x>>
  ELSE IF IndexLess(x.key, sorted[1].key) THEN <<x>> \o sorted
  ELSE <<sorted[1]>> \o InsertIndexKey(x, Tail(sorted))

RECURSIVE SortIndexKeys(_)
SortIndexKeys(seq) ==
  IF seq = <<>> THEN <<>> ELSE InsertIndexKey(seq[1], SortIndexKeys(Tail(seq)))

\* for (k in obj): array-index names in ascending numeric order first, then
\* the other names in insertion order. The entries in that order.
ForIn(obj) ==
  SortIndexKeys(SelectSeq(obj, LAMBDA e : IsArrayIndex(e.key)))
    \o SelectSeq(obj, LAMBDA e : ~IsArrayIndex(e.key))

\* !x for a number or undefined held under a key.
NotTruthyAt(obj, k) == ~hasKey(obj, k) \/ getKey(obj, k) = 0

\* arr != false for an array of numbers: the array is converted to the
\* number of its string form, so [] and [0] compare equal to false.
ArrayNeFalse(arr) == arr # <<>> /\ arr # <<0>>

\* formatters != false for an array of formatter objects.
FormattersNeFalse(fs) == fs # <<>>

\* ------------------------------------- caller-supplied functions (options)

RECURSIVE SumN(_)
SumN(vals) == IF vals = <<>> THEN 0 ELSE vals[1].n + SumN(Tail(vals))

RECURSIVE MaxN(_)
MaxN(vals) ==
  IF Len(vals) = 1 THEN vals[1].n
  ELSE LET m == MaxN(Tail(vals)) IN IF vals[1].n > m THEN vals[1].n ELSE m

HasNaN(vals) == \E i \in 1..Len(vals) : vals[i].t # "num"

\* An aggregator named `name` applied to an array of numbers. `unit` is the
\* representation of 1 in the array (1 for raw source values, Scale for
\* output cells).
Aggregate(name, vals, unit) ==
  CASE name = "sum" -> IF HasNaN(vals) THEN NaN ELSE Num(SumN(vals))
    [] name = "count" -> Num(Len(vals) * unit)
    [] name = "first" -> IF vals = <<>> THEN Null ELSE vals[1]
    [] name = "max" -> IF vals = <<>> \/ HasNaN(vals) THEN NaN ELSE Num(MaxN(vals))

\* A key modifier or column title modifier named `name`:
\* "firstChar" is function(v) { return String(v).charAt(0); }.
Modify(name, v) ==
  IF name = "firstChar" THEN Str(SubSeq(JSString(v), 1, 1)) ELSE v

\* A raw number as an output cell (hundredths).
ToCell(v) == IF v.t = "num" THEN Num(v.n * Scale) ELSE v

\* ---------------------------------------------------------------- state

VARIABLES
  dataTable_,             \* the source table
  options_,               \* the options object given to the constructor
  keyColumns_,            \* options_.pivotKeyIndexes || false
  columnColumn_,          \* options_.pivotColumnIndex || false
  valueColumn_,           \* options_.pivotValueIndex || false
  summaryColumns_,        \* options_.summaryColumns || false
  usePercentTotalValues_, \* options_.usePercentTotalValues || false
  keyColumnIndexMap_,     \* source key column -> output column
  columnColumn_IndexMap_, \* String(column title) -> output column
  rowAggregationMap_,     \* output row -> aggregated results pushed for it
  model,                  \* output row -> (output column -> raw values)
  outputTable_,           \* the pivoted table
  defaultRow,             \* memo of getDefaultRowExcludingKeyColumns_
  columnIndexesArray,     \* memo of getColumnIndexesArray
  keysMap,                \* buildModel_: String(key array) -> output row
  i,                      \* buildModel_: index of the next source row
  pc,                     \* position in the constructor
  err,                    \* what was thrown, "" if nothing
  invoked                 \* kinds of calls made so far on the source rows
                          \* and on caller-supplied functions

vars == <<dataTable_, options_, keyColumns_, columnColumn_, valueColumn_,
          summaryColumns_, usePercentTotalValues_, keyColumnIndexMap_,
          columnColumn_IndexMap_, rowAggregationMap_, model, outputTable_,
          defaultRow, columnIndexesArray, keysMap, i, pc, err, invoked>>

\* x || false for an optional option: absent and false are both <<>>.
OrFalse(opt) == opt

Truthy(opt) == opt # <<>>

\* ----------------------------------------------------------- constructor

\* gvizpivot.PivotAgg(dataTable, opts) up to the call of parseOptions_.
Construct(dataTable, opts) ==
  /\ dataTable_ = dataTable
  /\ options_ = opts
  /\ keyColumnIndexMap_ = <<>>
  /\ columnColumn_IndexMap_ = <<>>
  /\ rowAggregationMap_ = <<>>
  /\ model = <<>>
  /\ keyColumns_ = <<>>
  /\ columnColumn_ = <<>>
  /\ valueColumn_ = <<>>
  /\ summaryColumns_ = <<>>
  /\ usePercentTotalValues_ = "false"
  /\ outputTable_ = NewDataTable
  /\ defaultRow = <<>>
  /\ columnIndexesArray = <<>>
  /\ keysMap = <<>>
  /\ i = 0
  /\ pc = "parseOptions"
  /\ err = ""
  /\ invoked = {}

\* usePercentTotalValues || false
PercentOrFalse(v) == IF v = "undefined" THEN "false" ELSE v

parseOptions_ ==
  /\ pc = "parseOptions"
  /\ keyColumns_' = OrFalse(options_.pivotKeyIndexes)
  /\ columnColumn_' = OrFalse(options_.pivotColumnIndex)
  /\ valueColumn_' = OrFalse(options_.pivotValueIndex)
  /\ summaryColumns_' = OrFalse(options_.summaryColumns)
  /\ usePercentTotalValues_' = PercentOrFalse(options_.usePercentTotalValues)
  /\ outputTable_' = NewDataTable
  /\ pc' = "checkOptions"
  /\ UNCHANGED <<dataTable_, options_, keyColumnIndexMap_, columnColumn_IndexMap_,
                 rowAggregationMap_, model, defaultRow, columnIndexesArray,
                 keysMap, i, err, invoked>>

\* InsufficientOptions without the test of the value column.
InsufficientOptionsNoValue(kc, cc, vc) == ~Truthy(kc) \/ ~Truthy(cc)

\* !this.keyColumns_ || !this.columnColumn_ || !this.valueColumn_
InsufficientOptions(kc, cc, vc) == ~Truthy(kc) \/ ~Truthy(cc) \/ ~Truthy(vc)

\* performPivotConversion_, the check of the mandatory options.
checkOptions ==
  /\ pc = "checkOptions"
  /\ IF InsufficientOptions(keyColumns_, columnColumn_, valueColumn_)
     THEN pc' = "error" /\ err' = "Insufficient options provided"
     ELSE pc' = "addKeyColumns" /\ err' = err
  /\ UNCHANGED <<dataTable_, options_, keyColumns_, columnColumn_, valueColumn_,
                 summaryColumns_, usePercentTotalValues_, keyColumnIndexMap_,
                 columnColumn_IndexMap_, rowAggregationMap_, model, outputTable_,
                 defaultRow, columnIndexesArray, keysMap, i, invoked>>

\* ------------------------------------------------------- addKeyColumns_

RECURSIVE AddKeyColumnsFrom(_, _, _, _)
\* The loop of addKeyColumns_ from index j: [tbl, map] after it.
AddKeyColumnsFrom(j, specs, src, st) ==
  IF j > Len(specs) THEN st
  ELSE LET kc == specs[j]
           type == IF kc.type # "" THEN kc.type ELSE getColumnType(src, kc.column)
           label == getColumnLabel(src, kc.column)
       IN AddKeyColumnsFrom(j + 1, specs, src,
            [tbl |-> addColumn(st.tbl, type, label),
             map |-> putKey(st.map, Digits(kc.column), getNumberOfColumns(st.tbl))])

addKeyColumns_ ==
  /\ pc = "addKeyColumns"
  /\ LET st == AddKeyColumnsFrom(1, keyColumns_[1], dataTable_,
                 [tbl |-> outputTable_, map |-> keyColumnIndexMap_])
     IN /\ outputTable_' = st.tbl
        /\ keyColumnIndexMap_' = st.map
  /\ pc' = "addColumnColumns"
  /\ UNCHANGED <<dataTable_, options_, keyColumns_, columnColumn_, valueColumn_,
                 summaryColumns_, usePercentTotalValues_, columnColumn_IndexMap_,
                 rowAggregationMap_, model, defaultRow, columnIndexesArray,
                 keysMap, i, err, invoked>>

\* ---------------------------------------------------- addColumnColumns_

\* The distinct pivot values in the order the columns are generated in.
SortedDistinct(distinct, sortDesc) ==
  IF sortDesc THEN ArraySort(distinct) ELSE Reverse(ArraySort(distinct))

\* The title of the column of pivot value v.
ColumnTitle(cc, v) ==
  IF cc.columnTitleModifier # "" THEN Modify(cc.columnTitleModifier, v) ELSE v

\* if (!this.columnColumn_IndexMap_[String(newColTitle)])
TitleIsNew(map, title) == NotTruthyAt(map, JSString(title))

RECURSIVE AddColumnColumnsFrom(_, _, _, _, _)
\* The loop of addColumnColumns_ from index j: [tbl, map] after it.
AddColumnColumnsFrom(j, distinct, cc, type, st) ==
  IF j > Len(distinct) THEN st
  ELSE LET newColTitle == ColumnTitle(cc, distinct[j])
       IN AddColumnColumnsFrom(j + 1, distinct, cc, type,
            IF TitleIsNew(st.map, newColTitle)
            THEN [tbl |-> addColumn(st.tbl, type, newColTitle),
                  map |-> putKey(st.map, JSString(newColTitle),
                                 getNumberOfColumns(st.tbl))]
            ELSE st)

addColumnColumns_ ==
  /\ pc = "addColumnColumns"
  /\ LET cc == columnColumn_[1]
         distinct == SortedDistinct(getDistinctValues(dataTable_, cc.column),
                                    cc.sortDesc)
         type == getColumnType(dataTable_, valueColumn_[1].column)
         st == AddColumnColumnsFrom(1, distinct, cc, type,
                 [tbl |-> outputTable_, map |-> columnColumn_IndexMap_])
     IN /\ outputTable_' = st.tbl
        /\ columnColumn_IndexMap_' = st.map
        /\ invoked' = invoked
             \cup (IF getNumberOfRows(dataTable_) > 0 THEN {"read"} ELSE {})
             \cup (IF distinct # <<>> /\ cc.columnTitleModifier # ""
                   THEN {"transform"} ELSE {})
  /\ pc' = "buildModel"
  /\ UNCHANGED <<dataTable_, options_, keyColumns_, columnColumn_, valueColumn_,
                 summaryColumns_, usePercentTotalValues_, keyColumnIndexMap_,
                 rowAggregationMap_, model, defaultRow, columnIndexesArray,
                 keysMap, i, err>>

\* ----------------------------------------------------------- buildModel_

RECURSIVE Zeros(_)
Zeros(n) == IF n = 0 THEN <<>> ELSE <<Num(0)>> \o Zeros(n - 1)

\* getDefaultRowExcludingKeyColumns_ when the memo is empty: one 0 per
\* property of columnColumn_IndexMap_.
ComputeDefaultRow(map) == Zeros(Len(ForIn(map)))

\* The key value of one key column spec for source row r.
KeyValue(kc, src, r) ==
  LET val == getValue(src, r, kc.column)
      modVal == IF kc.modifier # "" THEN Modify(kc.modifier, val) ELSE val
  IN IF kc.type = "string" THEN Str(JSString(modVal)) ELSE modVal

\* keyArray of source row r.
KeyArray(specs, src, r) == [j \in 1..Len(specs) |-> KeyValue(specs[j], src, r)]

\* The property name keysMap[keyArray] reads and writes.
KeyOf(keyArray) == Join(keyArray)

\* PushValue with unshift in place of push.
PushValueFront(entry, columnIndex, value) ==
  IF \E k \in 1..Len(entry) : entry[k].col = columnIndex
  THEN [k \in 1..Len(entry) |->
          IF entry[k].col = columnIndex
          THEN [col |-> columnIndex, vals |-> <<value>> \o entry[k].vals]
          ELSE entry[k]]
  ELSE Append(entry, [col |-> columnIndex, vals |-> <<value>>])

\* PushValue assigning [value] over an array that is already there.
PushValueOverwrite(entry, columnIndex, value) ==
  IF \E k \in 1..Len(entry) : entry[k].col = columnIndex
  THEN [k \in 1..Len(entry) |->
          IF entry[k].col = columnIndex
          THEN [col |-> columnIndex, vals |-> <<value>>]
          ELSE entry[k]]
  ELSE Append(entry, [col |-> columnIndex, vals |-> <<value>>])

\* model[rowIndex][columnIndex].push(value), creating the array if needed.
\* One row's entry maps column indices to arrays, in insertion order.
PushValue(entry, columnIndex, value) ==
  IF \E k \in 1..Len(entry) : entry[k].col = columnIndex
  THEN [k \in 1..Len(entry) |->
          IF entry[k].col = columnIndex
          THEN [col |-> columnIndex, vals |-> Append(entry[k].vals, value)]
          ELSE entry[k]]
  ELSE Append(entry, [col |-> columnIndex, vals |-> <<value>>])

\* Entry of buildModel_: keysMap = {}, the default row is computed.
buildModel_ ==
  /\ pc = "buildModel"
  /\ keysMap' = <<>>
  /\ defaultRow' = IF defaultRow # <<>> THEN defaultRow
                   ELSE <<ComputeDefaultRow(columnColumn_IndexMap_)>>
  /\ i' = 0
  /\ pc' = IF getNumberOfRows(dataTable_) > 0 THEN "buildModelRow"
           ELSE "writeTableFromModel"
  /\ UNCHANGED <<dataTable_, options_, keyColumns_, columnColumn_, valueColumn_,
                 summaryColumns_, usePercentTotalValues_, keyColumnIndexMap_,
                 columnColumn_IndexMap_, rowAggregationMap_, model, outputTable_,
                 columnIndexesArray, err, invoked>>

\* One iteration of the loop of buildModel_ over the source rows.
buildModelRow ==
  /\ pc = "buildModelRow"
  /\ LET cc == columnColumn_[1]
         keyArray == KeyArray(keyColumns_[1], dataTable_, i)
         key == KeyOf(keyArray)
         isNew == ~hasKey(keysMap, key)
         newRow == keyArray \o defaultRow[1]
         throws == isNew /\ addRowThrows(outputTable_, newRow)
         newRowIndex == getNumberOfRows(outputTable_)
         rowIndex == IF isNew THEN newRowIndex ELSE getKey(keysMap, key)
         columnEntry == ColumnTitle(cc, getValue(dataTable_, i, cc.column))
         value == getValue(dataTable_, i, valueColumn_[1].column)
         columnIndex == getKey(columnColumn_IndexMap_, JSString(columnEntry))
         model1 == IF isNew THEN Append(model, <<>>) ELSE model
     IN /\ invoked' = invoked \cup {"read"}
             \cup (IF (\E j \in 1..Len(keyColumns_[1]) : keyColumns_[1][j].modifier # "")
                      \/ (~throws /\ cc.columnTitleModifier # "")
                   THEN {"transform"} ELSE {})
        /\ IF throws
           THEN /\ pc' = "error"
                /\ err' = "Row given with size different than the number of columns"
                /\ UNCHANGED <<outputTable_, keysMap, model, rowAggregationMap_, i>>
           ELSE /\ outputTable_' = IF isNew THEN addRow(outputTable_, newRow)
                                   ELSE outputTable_
                /\ keysMap' = IF isNew THEN putKey(keysMap, key, newRowIndex)
                              ELSE keysMap
                /\ rowAggregationMap_' = IF isNew THEN Append(rowAggregationMap_, <<>>)
                                         ELSE rowAggregationMap_
                /\ model' = [model1 EXCEPT ![rowIndex + 1] =
                               PushValue(@, columnIndex, value)]
                /\ i' = i + 1
                /\ pc' = IF i + 1 < getNumberOfRows(dataTable_) THEN "buildModelRow"
                         ELSE "writeTableFromModel"
                /\ err' = err
  /\ UNCHANGED <<dataTable_, options_, keyColumns_, columnColumn_, valueColumn_,
                 summaryColumns_, usePercentTotalValues_, keyColumnIndexMap_,
                 columnColumn_IndexMap_, defaultRow, columnIndexesArray>>

\* --------------------------------------------------- writeTableFromModel_

RECURSIVE InsertCol(_, _)
InsertCol(x, sorted) ==
  IF sorted = <<>> THEN <<x>>
  ELSE IF x.col < sorted[1].col THEN <<x>> \o sorted
  ELSE <<sorted[1]>> \o InsertCol(x, Tail(sorted))

RECURSIVE ForInColumns(_)
\* for (columnIndex in this.model[rowIndex]): ascending column index.
ForInColumns(entry) ==
  IF entry = <<>> THEN <<>> ELSE InsertCol(entry[1], ForInColumns(Tail(entry)))

RiskReviewQueries ==
  Str(<<82, 105, 115, 107, 32, 114, 101, 118, 105, 101, 119, 32,
        113, 117, 101, 114, 105, 101, 115>>)

RECURSIVE WriteColumnsFrom(_, _, _, _, _)
\* The inner loop for one row from position k of its columns:
\* [tbl, resultValue] after it.
WriteColumnsFrom(k, columns, rowIndex, aggregator, st) ==
  IF k > Len(columns) THEN st
  ELSE LET resultValue == ToCell(Aggregate(aggregator, columns[k].vals, 1))
       IN WriteColumnsFrom(k + 1, columns, rowIndex, aggregator,
            [tbl |-> setValue(st.tbl, rowIndex, columns[k].col, resultValue),
             resultValue |-> resultValue])

\* The statements after the inner loop throw when they read a column the
\* table does not have.
AfterRowThrows(tbl, rowIndex) ==
  \/ getValueThrows(tbl, 1)
  \/ (getValue(tbl, rowIndex, 1) = RiskReviewQueries /\ getValueThrows(tbl, 2))

\* What the body of the outer loop appends to rowAggregationMap_[rowIndex].
PushedResults(buffer, resultValue) == Append(buffer, resultValue)

RECURSIVE WriteRowsFrom(_, _, _, _)
\* The outer loop from row index r: [tbl, agg, resultValue, thrown] after it.
\* resultValue is function-scoped: it keeps its value between rows.
WriteRowsFrom(r, mdl, aggregator, st) ==
  IF r >= Len(mdl) \/ st.thrown THEN st
  ELSE LET columns == ForInColumns(mdl[r + 1])
           w == WriteColumnsFrom(1, columns, r, aggregator,
                  [tbl |-> st.tbl, resultValue |-> st.resultValue])
       IN WriteRowsFrom(r + 1, mdl, aggregator,
            [tbl |-> w.tbl,
             agg |-> [st.agg EXCEPT ![r + 1] = PushedResults(@, w.resultValue)],
             resultValue |-> w.resultValue,
             thrown |-> AfterRowThrows(w.tbl, r)])

writeTableFromModel_ ==
  /\ pc = "writeTableFromModel"
  /\ LET st == WriteRowsFrom(0, model, columnColumn_[1].aggregator,
                 [tbl |-> outputTable_, agg |-> rowAggregationMap_,
                  resultValue |-> Null, thrown |-> FALSE])
     IN /\ outputTable_' = st.tbl
        /\ rowAggregationMap_' = st.agg
        /\ invoked' = invoked \cup (IF model # <<>> THEN {"aggregator"} ELSE {})
        /\ IF st.thrown
           THEN pc' = "error" /\ err' = "Invalid column index"
           ELSE pc' = "summaryBefore" /\ err' = err
  /\ UNCHANGED <<dataTable_, options_, keyColumns_, columnColumn_, valueColumn_,
                 summaryColumns_, usePercentTotalValues_, keyColumnIndexMap_,
                 columnColumn_IndexMap_, model, defaultRow, columnIndexesArray,
                 keysMap, i>>

\* ------------------------------------------------- getColumnIndexesArray

\* The array getColumnIndexesArray builds when its memo is empty.
ComputeColumnIndexes(map) ==
  LET entries == ForIn(map) IN [k \in 1..Len(entries) |-> entries[k].val]

\* The array getColumnIndexesArray returns.
ColumnIndexes(memo, map) ==
  IF memo # <<>> THEN memo[1] ELSE ComputeColumnIndexes(map)

\* ---------------------------------------------- applyFormattingToColumns_

RECURSIVE FormatColumnsFrom(_, _, _, _)
FormatColumnsFrom(k, f, cols, tbl) ==
  IF k > Len(cols) THEN tbl
  ELSE FormatColumnsFrom(k + 1, f, cols, format(tbl, f, cols[k]))

RECURSIVE FormattersFrom(_, _, _, _)
FormattersFrom(j, formatters, cols, tbl) ==
  IF j > Len(formatters) THEN tbl
  ELSE FormattersFrom(j + 1, formatters, cols,
                      FormatColumnsFrom(1, formatters[j], cols, tbl))

\* The table after applyFormattingToColumns_(formatters, colIndexes).
applyFormattingToColumns_(tbl, formatters, colIndexes) ==
  IF FormattersNeFalse(formatters) /\ ArrayNeFalse(colIndexes)
  THEN FormattersFrom(1, formatters, colIndexes, tbl)
  ELSE tbl

\* Whether that call invokes a formatter.
FormatterInvoked(formatters, colIndexes) ==
  FormattersNeFalse(formatters) /\ ArrayNeFalse(colIndexes)

\* -------------------------------------------------- addAggregationColumn_

\* gvizpivot.utils.getRowValues
getRowValues(tbl, rowIndex, colIndexes) ==
  [c \in 1..Len(colIndexes) |-> getValue(tbl, rowIndex, colIndexes[c])]

\* gvizpivot.utils.getColumnEntries without a limit
getColumnEntries(tbl, colIndex) ==
  [m \in 1..getNumberOfRows(tbl) |-> getValue(tbl, m - 1, colIndex)]

RECURSIVE SummaryRowsFrom(_, _, _, _, _, _)
\* The loop over the rows of rowAggregationMap_ for one summary column.
SummaryRowsFrom(r, nRows, cols, aggregator, aggregationColumn, tbl) ==
  IF r >= nRows THEN tbl
  ELSE LET rowVals == getRowValues(tbl, r, cols)
           aggVal == Aggregate(aggregator, rowVals, Scale)
       IN SummaryRowsFrom(r + 1, nRows, cols, aggregator, aggregationColumn,
                          setValue(tbl, r, aggregationColumn, aggVal))

RECURSIVE SummaryColumnsFrom(_, _, _, _, _)
\* The loop of addAggregationColumn_ from spec k: the table after it.
SummaryColumnsFrom(k, specs, cols, nRows, tbl) ==
  IF k > Len(specs) THEN tbl
  ELSE LET aggregationColumn == getNumberOfColumns(tbl)
           t1 == addColumn(tbl, "number", specs[k].label)
           t2 == SummaryRowsFrom(0, nRows, cols, specs[k].aggregator,
                                 aggregationColumn, t1)
           t3 == IF Truthy(specs[k].formatters)
                 THEN applyFormattingToColumns_(t2, specs[k].formatters[1],
                                                <<aggregationColumn>>)
                 ELSE t2
       IN SummaryColumnsFrom(k + 1, specs, cols, nRows, t3)

\* The table after addAggregationColumn_.
addAggregationColumn_(tbl, specs, cols, rowAgg) ==
  SummaryColumnsFrom(1, specs, cols, Len(rowAgg), tbl)

\* What addAggregationColumn_ invokes.
SummaryInvoked(tbl, specs, rowAgg) ==
  (IF specs # <<>> /\ rowAgg # <<>> THEN {"aggregator"} ELSE {})
  \cup (IF \E k \in 1..Len(specs) :
             /\ Truthy(specs[k].formatters)
             /\ FormatterInvoked(specs[k].formatters[1],
                                 <<getNumberOfColumns(tbl) + k - 1>>)
        THEN {"formatter"} ELSE {})

\* ---------------------------------------- convertColumnsToPercentOfTotal_

\* google.visualization.data.sum over cells.
SumCells(arr) == Aggregate("sum", arr, Scale)

\* PercentOf with Math.floor in place of Math.round.
PercentOfTruncated(v, sumOfCol) ==
  IF v.t # "num" \/ sumOfCol.t # "num" \/ sumOfCol.n <= 0 THEN NaN
  ELSE Num((10000 * v.n) \div sumOfCol.n)

\* Math.round((v / sumOfCol) * 10000) / 100 as a cell (hundredths); Math.round
\* rounds halves up. 0 / 0 is NaN.
PercentOf(v, sumOfCol) ==
  IF v.t # "num" \/ sumOfCol.t # "num" THEN NaN
  ELSE IF sumOfCol.n = 0 THEN (IF v.n = 0 THEN NaN ELSE [t |-> "inf", s |-> <<>>, n |-> v.n])
  ELSE IF sumOfCol.n > 0
       THEN Num((20000 * v.n + sumOfCol.n) \div (2 * sumOfCol.n))
       ELSE Num((20000 * (0 - v.n) - sumOfCol.n) \div (2 * (0 - sumOfCol.n)))

\* gvizpivot.utils.getPercentTotalArray followed by the rounding that
\* convertColumnsToPercentOfTotal_ applies to each entry.
getPercentTotalArray(arr) ==
  LET sumOfCol == SumCells(arr) IN [k \in 1..Len(arr) |-> PercentOf(arr[k], sumOfCol)]

RECURSIVE SetColumnFrom(_, _, _, _)
SetColumnFrom(j, newVals, col, tbl) ==
  IF j >= Len(newVals) THEN tbl
  ELSE SetColumnFrom(j + 1, newVals, col, setValue(tbl, j, col, newVals[j + 1]))

RECURSIVE PercentColumnsFrom(_, _, _)
\* The 'col' branch from position k of cols.
PercentColumnsFrom(k, cols, tbl) ==
  IF k > Len(cols) THEN tbl
  ELSE LET newVals == getPercentTotalArray(getColumnEntries(tbl, cols[k]))
       IN PercentColumnsFrom(k + 1, cols, SetColumnFrom(0, newVals, cols[k], tbl))

RECURSIVE SetRowFrom(_, _, _, _, _)
SetRowFrom(j, newVals, cols, r, tbl) ==
  IF j >= Len(cols) THEN tbl
  ELSE SetRowFrom(j + 1, newVals, cols, r, setValue(tbl, r, cols[j + 1], newVals[j + 1]))

RECURSIVE PercentRowsFrom(_, _, _)
\* The 'row' branch from row index r.
PercentRowsFrom(r, cols, tbl) ==
  IF r >= getNumberOfRows(tbl) THEN tbl
  ELSE LET newVals == getPercentTotalArray(getRowValues(tbl, r, cols))
       IN PercentRowsFrom(r + 1, cols, SetRowFrom(0, newVals, cols, r, tbl))

\* options_.usePercentTotalValues == 'col' (and == 'row'): true == 'col'
\* compares 1 with NaN and is false.
LooseEquals(option, str) == option = str

\* The table after convertColumnsToPercentOfTotal_.
convertColumnsToPercentOfTotal_(tbl, cols, option) ==
  IF LooseEquals(option, "col") THEN PercentColumnsFrom(1, cols, tbl)
  ELSE IF LooseEquals(option, "row") THEN PercentRowsFrom(0, cols, tbl)
  ELSE tbl

\* -------------------------- performPivotConversion_, "based on user settings"

\* this.summaryColumns_[0].applyOrder throws a TypeError on an empty array.
FirstApplyOrderThrows(sc) == Truthy(sc) /\ sc[1] = <<>>

\* SummaryRunsBefore reading applyOrder from the last spec, not the first.
SummaryRunsBeforeLast(sc) ==
  Truthy(sc) /\ sc[1] # <<>> /\ sc[1][Len(sc[1])].applyOrder = "before"

\* Whether the summary columns are added at this point of the conversion.
SummaryRunsBefore(sc) == Truthy(sc) /\ sc[1] # <<>> /\ sc[1][1].applyOrder = "before"
SummaryRunsAfter(sc) == Truthy(sc) /\ sc[1] # <<>> /\ sc[1][1].applyOrder # "before"

\* lines 129-133
summaryBefore ==
  /\ pc = "summaryBefore"
  /\ IF FirstApplyOrderThrows(summaryColumns_)
     THEN /\ pc' = "error"
          /\ err' = "TypeError"
          /\ UNCHANGED <<outputTable_, columnIndexesArray, invoked>>
     ELSE /\ pc' = "convertToPercent"
          /\ err' = err
          /\ IF SummaryRunsBefore(summaryColumns_)
             THEN LET cols == ColumnIndexes(columnIndexesArray, columnColumn_IndexMap_)
                  IN /\ columnIndexesArray' = <<cols>>
                     /\ outputTable_' = addAggregationColumn_(outputTable_,
                                          summaryColumns_[1], cols, rowAggregationMap_)
                     /\ invoked' = invoked \cup SummaryInvoked(outputTable_,
                                          summaryColumns_[1], rowAggregationMap_)
             ELSE UNCHANGED <<outputTable_, columnIndexesArray, invoked>>
  /\ UNCHANGED <<dataTable_, options_, keyColumns_, columnColumn_, valueColumn_,
                 summaryColumns_, usePercentTotalValues_, keyColumnIndexMap_,
                 columnColumn_IndexMap_, rowAggregationMap_, model, defaultRow,
                 keysMap, i>>

\* lines 134-136
convertToPercent ==
  /\ pc = "convertToPercent"
  /\ IF usePercentTotalValues_ # "false"
     THEN LET cols == ColumnIndexes(columnIndexesArray, columnColumn_IndexMap_)
          IN /\ columnIndexesArray' = <<cols>>
             /\ outputTable_' = convertColumnsToPercentOfTotal_(outputTable_, cols,
                                  options_.usePercentTotalValues)
     ELSE UNCHANGED <<outputTable_, columnIndexesArray>>
  /\ pc' = "applyFormatting"
  /\ UNCHANGED <<dataTable_, options_, keyColumns_, columnColumn_, valueColumn_,
                 summaryColumns_, usePercentTotalValues_, keyColumnIndexMap_,
                 columnColumn_IndexMap_, rowAggregationMap_, model, defaultRow,
                 keysMap, i, err, invoked>>

\* lines 137-140
applyFormatting ==
  /\ pc = "applyFormatting"
  /\ IF Truthy(columnColumn_[1].formatters)
     THEN LET cols == ColumnIndexes(columnIndexesArray, columnColumn_IndexMap_)
              fs == columnColumn_[1].formatters[1]
          IN /\ columnIndexesArray' = <<cols>>
             /\ outputTable_' = applyFormattingToColumns_(outputTable_, fs, cols)
             /\ invoked' = invoked \cup
                  (IF FormatterInvoked(fs, cols) THEN {"formatter"} ELSE {})
     ELSE UNCHANGED <<outputTable_, columnIndexesArray, invoked>>
  /\ pc' = "summaryAfter"
  /\ UNCHANGED <<dataTable_, options_, keyColumns_, columnColumn_, valueColumn_,
                 summaryColumns_, usePercentTotalValues_, keyColumnIndexMap_,
                 columnColumn_IndexMap_, rowAggregationMap_, model, defaultRow,
                 keysMap, i, err>>

\* lines 141-145
summaryAfter ==
  /\ pc = "summaryAfter"
  /\ IF SummaryRunsAfter(summaryColumns_)
     THEN LET cols == ColumnIndexes(columnIndexesArray, columnColumn_IndexMap_)
          IN /\ columnIndexesArray' = <<cols>>
             /\ outputTable_' = addAggregationColumn_(outputTable_,
                                  summaryColumns_[1], cols, rowAggregationMap_)
             /\ invoked' = invoked \cup SummaryInvoked(outputTable_,
                                  summaryColumns_[1], rowAggregationMap_)
     ELSE UNCHANGED <<outputTable_, columnIndexesArray, invoked>>
  /\ pc' = "done"
  /\ UNCHANGED <<dataTable_, options_, keyColumns_, columnColumn_, valueColumn_,
                 summaryColumns_, usePercentTotalValues_, keyColumnIndexMap_,
                 columnColumn_IndexMap_, rowAggregationMap_, model, defaultRow,
                 keysMap, i, err>>

Next ==
  \/ parseOptions_
  \/ checkOptions
  \/ addKeyColumns_
  \/ addColumnColumns_
  \/ buildModel_
  \/ buildModelRow
  \/ writeTableFromModel_
  \/ summaryBefore
  \/ convertToPercent
  \/ applyFormatting
  \/ summaryAfter

\* ------------------------------------------------------------ inputs

\* Largest number of source rows of the generated source tables.
MaxRows == 3

SeqsUpTo(S, n) == UNION {[1..k -> S] : k \in 0..n}

\* Strings used in the source tables.
StrA == <<97>>
StrB == <<98>>
StrC == <<99>>
StrAB == <<97, 44, 98>>
StrBC == <<98, 44, 99>>
StrMon == <<77, 111, 110>>
StrMax == <<77, 97, 120>>
StrTue == <<84, 117, 101>>
StrOli == <<79, 108, 105>>
StrKate == <<75, 97, 116, 101>>

\* A source table: columns 0 and 1 hold strings, column 2 the pivot source
\* (of type pivotType), column 3 the numeric values.
SourceTable(pivotType, rows) ==
  [cols |-> <<[type |-> "string", label |-> Str(<<107, 48>>)],
              [type |-> "string", label |-> Str(<<107, 49>>)],
              [type |-> pivotType, label |-> Str(<<112>>)],
              [type |-> "number", label |-> Str(<<118>>)]>>,
   rows |-> rows,
   fmt |-> <<>>]

SourceRows(K0, K1, P, V) ==
  {<<Str(a), Str(b), p, Num(v)>> : a \in K0, b \in K1, p \in P, v \in V}

StringRows(K0, K1, P, V) == SourceRows(K0, K1, {Str(x) : x \in P}, V)
NumberRows(K0, K1, P, V) == SourceRows(K0, K1, {Num(x) : x \in P}, V)

\* The source tables of at most MaxRows rows drawn from rowSet.
Tables(pivotType, rowSet) ==
  {SourceTable(pivotType, rows) : rows \in SeqsUpTo(rowSet, MaxRows)}

KeySpec(column, modifier, type) ==
  [column |-> column, modifier |-> modifier, type |-> type]

PivotSpec(sortDesc, aggregator, columnTitleModifier, formatters) ==
  [column |-> 2, sortDesc |-> sortDesc, aggregator |-> aggregator,
   columnTitleModifier |-> columnTitleModifier, formatters |-> formatters]

ValueSpec == [column |-> 3]

SummarySpec(aggregator, applyOrder, formatters) ==
  [label |-> Str(<<83>>), aggregator |-> aggregator,
   applyOrder |-> applyOrder, formatters |-> formatters]

Options(keys, pivot, value, summary, percent) ==
  [pivotKeyIndexes |-> keys, pivotColumnIndex |-> pivot, pivotValueIndex |-> value,
   summaryColumns |-> summary, usePercentTotalValues |-> percent]

\* The source table of the scenario of the documentation:
\* (Oli, Mon, 10), (Oli, Mon, 15), (Kate, Mon, 8), (Kate, Tue, 15).
ScenarioTable ==
  SourceTable("string",
    <<<<Str(StrOli), Str(<<>>), Str(StrMon), Num(10)>>,
      <<Str(StrOli), Str(<<>>), Str(StrMon), Num(15)>>,
      <<Str(StrKate), Str(<<>>), Str(StrMon), Num(8)>>,
      <<Str(StrKate), Str(<<>>), Str(StrTue), Num(15)>>>>)

ScenarioOptions ==
  Options(<<<<KeySpec(0, "", "")>>>>, <<PivotSpec(TRUE, "sum", "", <<>>)>>,
          <<ValueSpec>>, <<>>, "undefined")

OneKey == <<<<KeySpec(0, "", "")>>>>

\* Aggregation: every aggregator, with and without the optional passes.
AggTables ==
  Tables("string", StringRows({StrA}, {StrC}, {StrMon, StrTue}, {1, 2})
                   \cup StringRows({StrB}, {StrC}, {StrMon, StrTue}, {1}))

AggOptions ==
  {Options(OneKey, <<PivotSpec(TRUE, agg, "", <<>>)>>, <<ValueSpec>>, <<>>, "undefined") :
     agg \in {"sum", "count", "first"}}
  \cup
  {Options(OneKey, <<PivotSpec(FALSE, "sum", "", <<<<"f1", "f2">>>>)>>, <<ValueSpec>>,
           <<<<SummarySpec("sum", "", <<<<"f1">>>>)>>>>, pct) : pct \in {"col", "row"}}

Init ==
  \/ \E tbl \in AggTables, opts \in AggOptions : Construct(tbl, opts)
  \/ Construct(ScenarioTable, ScenarioOptions)

Spec == Init /\ [][Next]_vars

\* Key columns: key values with and without the separator, every shape of
\* the key column list.
KeysTables ==
  Tables("string", StringRows({StrA, StrAB}, {StrC, StrBC}, {StrMon, StrTue}, {1}))

KeysOptions ==
  {Options(<<keys>>, <<PivotSpec(TRUE, "sum", "", <<>>)>>, <<ValueSpec>>, <<>>,
           "undefined") :
     keys \in {<<>>,
               <<KeySpec(0, "", "")>>,
               <<KeySpec(0, "", ""), KeySpec(1, "", "")>>,
               <<KeySpec(1, "", "string"), KeySpec(0, "", "")>>,
               <<KeySpec(0, "firstChar", ""), KeySpec(1, "", "")>>,
               <<KeySpec(0, "", ""), KeySpec(0, "", "")>>}}

InitKeys == \E tbl \in KeysTables, opts \in KeysOptions : Construct(tbl, opts)

SpecKeys == InitKeys /\ [][Next]_vars

\* Pivot columns: string and number pivot values, both sort orders, with and
\* without a title modifier, with and without key columns.
ColumnsTables ==
  Tables("string", StringRows({StrA}, {StrC}, {StrMon, StrMax, StrTue}, {1}))
  \cup Tables("number", NumberRows({StrA}, {StrC}, {2, 10, 12}, {1}))

ColumnsOptions ==
  {Options(<<keys>>, <<PivotSpec(sd, "sum", mod, <<>>)>>, <<ValueSpec>>, <<>>,
           "undefined") :
     keys \in {<<>>, <<KeySpec(0, "", "")>>}, sd \in BOOLEAN, mod \in {"", "firstChar"}}

InitColumns == \E tbl \in ColumnsTables, opts \in ColumnsOptions : Construct(tbl, opts)

SpecColumns == InitColumns /\ [][Next]_vars

\* Optional passes: every percent-of-total option, summary column lists of
\* length 0 to 2 with every position of "before"; values that make a row or
\* column total zero.
PostTables ==
  Tables("string", StringRows({StrA}, {StrC}, {StrMon, StrTue}, {1, 2})
                   \cup StringRows({StrB}, {StrC}, {StrMon}, {0, 1}))

PostSummaries ==
  {<<>>,
   <<<<>>>>,
   <<<<SummarySpec("sum", "before", <<>>)>>>>,
   <<<<SummarySpec("sum", "", <<>>)>>>>,
   <<<<SummarySpec("sum", "before", <<>>), SummarySpec("max", "after", <<>>)>>>>,
   <<<<SummarySpec("sum", "after", <<>>), SummarySpec("max", "before", <<<<"f1">>>>)>>>>,
   <<<<SummarySpec("max", "", <<>>), SummarySpec("sum", "before", <<>>)>>>>}

PostOptions ==
  {Options(OneKey, <<PivotSpec(TRUE, "sum", "", <<>>)>>, <<ValueSpec>>, sc, pct) :
     sc \in PostSummaries \ {<<<<>>>>}, pct \in {"col", "row"}}
  \cup
  {Options(OneKey, <<PivotSpec(TRUE, "sum", "", <<>>)>>, <<ValueSpec>>, sc, "true") :
     sc \in {<<>>, <<<<SummarySpec("sum", "", <<>>)>>>>}}
  \cup
  {Options(OneKey, <<PivotSpec(TRUE, "sum", "", <<>>)>>, <<ValueSpec>>, sc, "undefined") :
     sc \in {<<<<>>>>, <<<<SummarySpec("sum", "before", <<>>)>>>>}}

InitPost == \E tbl \in PostTables, opts \in PostOptions : Construct(tbl, opts)

SpecPost == InitPost /\ [][Next]_vars

\* Mandatory options: every combination of present and absent groups, with
\* modifiers, formatters and summary columns configured.
MandatoryTables ==
  Tables("string", StringRows({StrA, StrB}, {StrC}, {StrMon, StrTue}, {1}))

MandatoryOptions ==
  {Options(keys, pivot, value, <<<<SummarySpec("sum", "before", <<<<"f1">>>>)>>>>, "col") :
     keys \in {<<>>, <<<<>>>>, <<<<KeySpec(0, "firstChar", "")>>>>},
     pivot \in {<<>>, <<PivotSpec(FALSE, "sum", "firstChar", <<<<"f1">>>>)>>},
     value \in {<<>>, <<ValueSpec>>}}

InitMandatory == \E tbl \in MandatoryTables, opts \in MandatoryOptions : Construct(tbl, opts)

SpecMandatory == InitMandatory /\ [][Next]_vars

\* ------------------------------------------------- reading the result

\* The conversion has finished the grouping pass (and has not thrown).
BuildDone ==
  pc \in {"writeTableFromModel", "summaryBefore", "convertToPercent",
          "applyFormatting", "summaryAfter", "done"}

SourceRowIndexes == 0..(getNumberOfRows(dataTable_) - 1)

KeySpecs == options_.pivotKeyIndexes[1]
NumKeys == Len(KeySpecs)

\* The key tuple, the column title and the value of source row r.
SourceKeyTuple(r) == KeyArray(KeySpecs, dataTable_, r)
SourceTitle(r) ==
  ColumnTitle(options_.pivotColumnIndex[1],
              getValue(dataTable_, r, options_.pivotColumnIndex[1].column))
SourceValue(r) == getValue(dataTable_, r, options_.pivotValueIndex[1].column)

\* The output row and output column the key map and the column map give
\* source row r.
MappedRow(r) == getKey(keysMap, KeyOf(SourceKeyTuple(r)))
MappedColumn(r) == getKey(columnColumn_IndexMap_, JSString(SourceTitle(r)))

\* The output columns generated from pivot values, and the output rows.
PivotColumns == {columnColumn_IndexMap_[k].val : k \in 1..Len(columnColumn_IndexMap_)}
OutputRows == 0..(getNumberOfRows(outputTable_) - 1)

RECURSIVE AscendingSeq(_)
\* The elements of a set of integers in ascending order.
AscendingSeq(S) ==
  IF S = {} THEN <<>>
  ELSE LET m == CHOOSE x \in S : \A y \in S : x <= y IN <<m>> \o AscendingSeq(S \ {m})

\* The values of the source rows mapped to (row, col), in source order.
Contributions(row, col) ==
  LET sel == AscendingSeq({r \in SourceRowIndexes :
                             MappedRow(r) = row /\ MappedColumn(r) = col})
  IN [k \in 1..Len(sel) |-> SourceValue(sel[k])]

\* The cell (row, col) the aggregation pass is meant to leave.
ExpectedCell(row, col) ==
  IF Contributions(row, col) = <<>> THEN Num(0)
  ELSE ToCell(Aggregate(options_.pivotColumnIndex[1].aggregator,
                        Contributions(row, col), 1))

\* x is v / total as a percentage rounded to two decimals (all in hundredths).
IsPercentOf(x, v, total) ==
  /\ x.t = "num"
  /\ 2 * x.n * total - total <= 20000 * v
  /\ 20000 * v < 2 * x.n * total + total

RECURSIVE FirstSeen(_)
\* The distinct elements of a sequence in the order of their first occurrence.
FirstSeen(seq) ==
  IF seq = <<>> THEN <<>>
  ELSE LET front == FirstSeen(SubSeq(seq, 1, Len(seq) - 1))
           last == seq[Len(seq)]
       IN IF \E k \in 1..Len(front) : front[k] = last THEN front
          ELSE Append(front, last)

\* --------------------------------------------------------------- claims

\* C1: after the grouping pass the output table has exactly one row per
\* distinct key tuple of the source, in the order in which the tuples are
\* first seen, each row holding its tuple in the key columns (so two source
\* rows share a row exactly when their key tuples are equal).
C1_OneRowPerKeyTuple ==
  BuildDone =>
    LET n == getNumberOfRows(dataTable_)
        tuples == FirstSeen([k \in 1..n |-> SourceKeyTuple(k - 1)])
    IN /\ getNumberOfRows(outputTable_) = Len(tuples)
       /\ \A k \in 1..Len(tuples) :
            SubSeq(outputTable_.rows[k], 1, NumKeys) = tuples[k]

\* C2: addColumnColumns_ adds exactly one output column per distinct
\* (transformed) pivot value, and the default row has one zero per such value.
C2_OneColumnPerTitle ==
  pc \in {"buildModelRow", "writeTableFromModel"} =>
    LET titles == {SourceTitle(r) : r \in SourceRowIndexes}
    IN /\ getNumberOfColumns(outputTable_) - NumKeys = Cardinality(titles)
       /\ Len(defaultRow[1]) = Cardinality(titles)

\* C3: right after the aggregation pass every cell (r, c) of a generated
\* pivot column holds the aggregator applied to the values of the source
\* rows mapped to (r, c), in source order, and 0 when there is none; the
\* documented scenario gives Oli: Mon = 25, Tue = 0 and Kate: Mon = 8,
\* Tue = 15.
C3_CellsAreAggregates ==
  pc = "summaryBefore" =>
    /\ \A r \in OutputRows : \A c \in PivotColumns :
         getValue(outputTable_, r, c) = ExpectedCell(r, c)
    /\ (dataTable_ = ScenarioTable /\ options_ = ScenarioOptions) =>
         /\ [k \in 1..3 |-> outputTable_.cols[k].label]
              = <<Str(<<107, 48>>), Str(StrMon), Str(StrTue)>>
         /\ outputTable_.rows
              = <<<<Str(StrOli), Num(25 * Scale), Num(0)>>,
                  <<Str(StrKate), Num(8 * Scale), Num(15 * Scale)>>>>

\* C3 witness: the aggregation pass has run on the scenario, where one cell
\* aggregates two source rows and one cell has none.
C3_Witness ==
  /\ pc = "summaryBefore"
  /\ dataTable_ = ScenarioTable
  /\ Len(Contributions(0, 1)) = 2
  /\ Contributions(0, 2) = <<>>
  /\ getValue(outputTable_, 0, 1) = Num(25 * Scale)

\* The sum of the cells the aggregation pass is meant to leave in column c,
\* and in the generated pivot columns of row r.
ExpectedColumnTotal(c) ==
  SumN([k \in 1..getNumberOfRows(outputTable_) |-> ExpectedCell(k - 1, c)])
ExpectedRowTotal(r) ==
  LET cols == AscendingSeq(PivotColumns)
  IN SumN([k \in 1..Len(cols) |-> ExpectedCell(r, cols[k])])

\* C4: with usePercentTotalValues the boolean true, the finished table holds
\* in every generated pivot column the cells as percent of the column total.
C4_TrueConvertsToColumnPercent ==
  (pc = "done" /\ options_.usePercentTotalValues = "true") =>
    \A r \in OutputRows : \A c \in PivotColumns :
      ExpectedColumnTotal(c) > 0 =>
        IsPercentOf(getValue(outputTable_, r, c), ExpectedCell(r, c).n,
                    ExpectedColumnTotal(c))

\* Some mandatory option group is missing from the options.
GroupMissing ==
  \/ options_.pivotKeyIndexes = <<>>
  \/ options_.pivotColumnIndex = <<>>
  \/ options_.pivotValueIndex = <<>>

\* C5: construction throws the configuration error exactly when a mandatory
\* option group is missing, and then nothing has been added to the output
\* table, no source row has been read and no aggregator, modifier or
\* formatter has been invoked.
C5_MandatoryOptions ==
  /\ GroupMissing => pc \in {"parseOptions", "checkOptions", "error"}
  /\ pc \notin {"parseOptions", "checkOptions"} =>
       (GroupMissing <=> (pc = "error" /\ err = "Insufficient options provided"))
  /\ err = "Insufficient options provided" =>
       /\ outputTable_ = NewDataTable
       /\ invoked = {}
       /\ model = <<>>

\* C5 witness: only the value column is missing and the error is thrown.
C5_Witness ==
  /\ pc = "error"
  /\ err = "Insufficient options provided"
  /\ options_.pivotKeyIndexes # <<>>
  /\ options_.pivotColumnIndex # <<>>
  /\ options_.pivotValueIndex = <<>>
  /\ getNumberOfRows(dataTable_) > 0

\* The summary specs of the options, and the output column of spec k.
SummarySpecs == options_.summaryColumns[1]
SummaryColumn(k) == NumKeys + Cardinality(PivotColumns) + k - 1

\* The generated pivot cells of row r as the aggregation pass is meant to
\* leave them, and as they are now, by ascending column.
ExpectedPivotCells(r) ==
  LET cols == AscendingSeq(PivotColumns)
  IN [k \in 1..Len(cols) |-> ExpectedCell(r, cols[k])]
CurrentPivotCells(r) ==
  LET cols == AscendingSeq(PivotColumns)
  IN [k \in 1..Len(cols) |-> getValue(outputTable_, r, cols[k])]

\* C6: with a non-empty summaryColumns, the finished table has one summary
\* column per spec after the pivot columns; if the first spec's applyOrder is
\* "before", every summary cell is its spec's aggregator applied to the row's
\* pivot cells as they were before the percent conversion, otherwise to the
\* row's pivot cells after it. The applyOrder of later specs has no effect.
C6_FirstApplyOrderDecides ==
  (pc = "done" /\ options_.summaryColumns # <<>> /\ SummarySpecs # <<>>) =>
    /\ getNumberOfColumns(outputTable_)
         = NumKeys + Cardinality(PivotColumns) + Len(SummarySpecs)
    /\ \A k \in 1..Len(SummarySpecs) : \A r \in OutputRows :
         getValue(outputTable_, r, SummaryColumn(k))
           = Aggregate(SummarySpecs[k].aggregator,
                       IF SummarySpecs[1].applyOrder = "before"
                       THEN ExpectedPivotCells(r) ELSE CurrentPivotCells(r),
                       Scale)

\* C6 witness: two specs, the first "after" and the second "before", percent
\* mode "col": the sum column holds the sum of percentages, not the raw sum.
C6_Witness ==
  /\ pc = "done"
  /\ options_.usePercentTotalValues = "col"
  /\ options_.summaryColumns # <<>>
  /\ Len(SummarySpecs) = 2
  /\ SummarySpecs[1].applyOrder = "after"
  /\ SummarySpecs[2].applyOrder = "before"
  /\ getNumberOfRows(outputTable_) = 2
  /\ getValue(outputTable_, 0, SummaryColumn(1)) # Num(SumN(ExpectedPivotCells(0)))
  /\ getValue(outputTable_, 0, SummaryColumn(1)) = Num(SumN(CurrentPivotCells(0)))

\* C6 witness of the "before" case: the summary cell holds the raw sum after
\* the conversion has changed the pivot cells.
C6_WitnessBefore ==
  /\ pc = "done"
  /\ options_.usePercentTotalValues = "row"
  /\ options_.summaryColumns # <<>>
  /\ Len(SummarySpecs) = 2
  /\ SummarySpecs[1].applyOrder = "before"
  /\ getNumberOfRows(outputTable_) > 0
  /\ getValue(outputTable_, 0, SummaryColumn(1)) = Num(3 * Scale)
  /\ CurrentPivotCells(0) = <<Num(3333), Num(6667)>>

\* C7: without a columnTitleModifier the generated pivot columns are, left to
\* right, the distinct pivot values in ascending natural order when sortDesc
\* is true and in descending natural order otherwise.
C7_ColumnsInNaturalOrder ==
  (pc = "buildModel" /\ options_.pivotColumnIndex[1].columnTitleModifier = "") =>
    LET natural == SortBy(SetToSeq({SourceTitle(r) : r \in SourceRowIndexes}), TRUE)
        labels == [k \in 1..(getNumberOfColumns(outputTable_) - NumKeys) |->
                     outputTable_.cols[NumKeys + k].label]
    IN labels = IF options_.pivotColumnIndex[1].sortDesc THEN natural
                ELSE Reverse(natural)

\* The conversion to percent of total has run.
PercentDone == pc \in {"applyFormatting", "summaryAfter", "done"}

\* The summary columns were added before the conversion to percent.
SummaryWrittenBefore ==
  /\ options_.summaryColumns # <<>>
  /\ SummarySpecs # <<>>
  /\ SummarySpecs[1].applyOrder = "before"

\* C8: after the conversion in "col" mode every cell of a generated pivot
\* column with a non-zero total is round(10000 * v / S) / 100 for its value v
\* and its column's total S before the conversion; in "row" mode the same
\* with S the total of the row's generated pivot cells before the
\* conversion. The key cells and the summary cells already written keep
\* their values.
C8_PercentOfTotal ==
  (PercentDone /\ options_.usePercentTotalValues \in {"col", "row"}) =>
    \A r \in OutputRows :
      /\ \A c \in PivotColumns :
           LET total == IF options_.usePercentTotalValues = "col"
                        THEN ExpectedColumnTotal(c) ELSE ExpectedRowTotal(r)
           IN total # 0 =>
                IsPercentOf(getValue(outputTable_, r, c), ExpectedCell(r, c).n, total)
      /\ \E s \in SourceRowIndexes :
           /\ MappedRow(s) = r
           /\ SubSeq(outputTable_.rows[r + 1], 1, NumKeys) = SourceKeyTuple(s)
      /\ (SummaryWrittenBefore /\ pc = "applyFormatting") =>
           \A k \in 1..Len(SummarySpecs) :
             getValue(outputTable_, r, SummaryColumn(k))
               = Aggregate(SummarySpecs[k].aggregator, ExpectedPivotCells(r), Scale)

\* C8 witness: "col" mode has run with summary columns already written, and
\* a column of raw values 1 and 2 reads 33.33 and 66.67.
C8_Witness ==
  /\ pc = "applyFormatting"
  /\ options_.usePercentTotalValues = "col"
  /\ SummaryWrittenBefore
  /\ getNumberOfRows(outputTable_) = 2
  /\ \E c \in PivotColumns :
       /\ ExpectedCell(0, c) = Num(1 * Scale)
       /\ ExpectedCell(1, c) = Num(2 * Scale)
       /\ getValue(outputTable_, 0, c) = Num(3333)
       /\ getValue(outputTable_, 1, c) = Num(6667)

\* The entry of column c in row r of the model, as a set (empty when absent).
ModelEntries(r, c) == {k \in 1..Len(model[r + 1]) : model[r + 1][k].col = c}

C10_AggregationBuffer ==
  pc = "summaryBefore" =>
    \A r \in OutputRows :
      LET columns == ForInColumns(model[r + 1])
      IN rowAggregationMap_[r + 1]
           = [k \in 1..Len(columns) |->
                ToCell(Aggregate(options_.pivotColumnIndex[1].aggregator,
                                 columns[k].vals, 1))]

\* The three mandatory groups of the options are present.
MandatoryPresent ==
  /\ options_.pivotKeyIndexes # <<>>
  /\ options_.pivotColumnIndex # <<>>
  /\ options_.pivotValueIndex # <<>>

\* The number of summary specs of the options, none when absent.
NumSummarySpecs ==
  IF options_.summaryColumns = <<>> THEN 0 ELSE Len(SummarySpecs)

\* C11: with the three mandatory groups present the construction never ends
\* in an error, whatever summaryColumns is (absent, empty, any length, any
\* applyOrder values), and the finished output table has one column per key
\* spec, one per generated pivot column and one per summary spec, so the
\* summary step has run at most once and an empty list acts as an absent one.
C11_SummaryColumnsComplete ==
  MandatoryPresent =>
    /\ pc # "error"
    /\ pc = "done" =>
         getNumberOfColumns(outputTable_)
           = NumKeys + Cardinality({SourceTitle(r) : r \in SourceRowIndexes})
               + NumSummarySpecs

====
